---- MODULE Spec2Model ----
(***************************************************************************)
(* Model of the inventory reorder predictor (src/src/App.js; the earlier   *)
(* revision src/unnamed/part_000 has the same handlers with alert() in     *)
(* place of showMessage and a single catalog fetch).                       *)
(*                                                                         *)
(* State: the six useState cells of InventoryDashboard, the pending        *)
(* setTimeout callbacks of showMessage, the train runs in flight (each     *)
(* with the tensors and the model it allocated) and the tensors that       *)
(* prediction passes left allocated in the tf engine.                      *)
(*                                                                         *)
(* Two specifications: Spec lets any caller invoke the two handlers in any *)
(* state (the handlers as the pipeline's train/predict operations);        *)
(* SpecDashboard invokes them only through the Toolbar buttons, which the  *)
(* component disables from isModelReady and hides while loading.           *)
(*                                                                         *)
(* Numbers: prices are in cents, Math.random() returns k/RandDen, a        *)
(* probability is in percent. Floating point rounding error is not         *)
(* modelled.                                                               *)
(***************************************************************************)
EXTENDS Integers, Sequences, FiniteSets, TLC

VARIABLES
  items,           \* useState([]), App.js line 152
  loading,         \* useState(true), line 153
  isModelReady,    \* useState(false), line 154
  tfModel,         \* useState(null), line 155: the run whose model is stored
  totalReorder,    \* useState(0), line 156
  message,         \* useState(null), line 157
  timers,          \* setTimeout callbacks of showMessage not yet run, line 162
  runs,            \* per call of buildAndTrainModel: where it stands, the
                   \* training tensors it holds, the weights of its model
  predictTensors,  \* tensors created by handlePredict and not disposed
  lastFit,         \* history: the run whose model.fit resolved last
  passesInRow,     \* history: prediction passes that ran to their end since
                   \* a fit last resolved or the items were last loaded,
                   \* counted up to 2
  fetches,         \* the five fetch promises of loadProducts, line 170, and
                   \* what the server holds (followed in SpecLoad only)
  synth            \* a call of createAugmentedProducts on its own: its
                   \* arguments and whether it has returned (SpecSynth only)

vars == <<items, loading, isModelReady, tfModel, totalReorder, message,
          timers, runs, predictTensors, lastFit, passesInRow, fetches, synth>>

\* raw items in one call of the synthesizer on its own
MaxSynthLen == 2

\* what the handlers of the dashboard never touch
aside == <<fetches, synth>>

\* ------------------------------------------------------------------ bounds
\* train runs ever started
MaxRuns == 2
\* showMessage clear-timers pending at once
MaxTimers == 2
\* tensors that failing prediction passes may leave allocated
MaxLeak == 2

\* ------------------------------------------------------- program constants
MaxNameLen == 40
Threshold == 50
RandDen == 10

\* null, as the value of tfModel (a model is named by the run that built it)
\* and of message
NoModel == 0
NoMessage == [text |-> "", type |-> "null"]
Pending == "Pending"
REORDER == "REORDER"
NoReorder == "No Reorder"

RunIds == 1..MaxRuns

\* ------------------------------------------------------------ arithmetic
\* Math.round(num/den) for den > 0: floor(num/den + 1/2)
Round(num, den) == (2 * num + den) \div (2 * den)

Max(a, b) == IF a >= b THEN a ELSE b

\* ------------------------------------------------------------ the catalog
totalBatches == 5

LongTitle == [i \in 1..(MaxNameLen + 1) |-> "x"]

Bag == [id |-> 1, title |-> <<"B", "a", "g">>, price |-> 10995]
Shirt == [id |-> 2, title |-> LongTitle, price |-> 2230]
Ring == [id |-> 3, title |-> <<"R">>, price |-> 0]
\* an object of the response that has no title
Untitled == [id |-> 4, price |-> 100]

\* what the server may hold, as the five pages the five fetches ask for
Catalogs ==
  { <<  <<Bag, Shirt>>, <<Ring>>, << >>, << >>, << >> >>,
    <<  <<Bag, Shirt>>, <<Untitled>>, << >>, << >>, << >> >> }

\* the values successive Math.random() calls return, in units of 1/RandDen
RandStreams ==
  { [i \in 1..6 |-> RandDen - 1],
    <<5, 2, 0, 9, 7, 4>> }

RECURSIVE Flat(_)
Flat(ss) == IF ss = << >> THEN << >> ELSE Head(ss) \o Flat(Tail(ss))

\* Promise.all over fetches that are not caught one by one: one failure
\* rejects the whole load
RawProductsAllOrNothing(catalog, ok) ==
  IF ok = 1..totalBatches THEN Flat(catalog) ELSE << >>

\* Promise.all over the five fetches, each caught into [] when it fails,
\* then allResults.flat()
RawProducts(catalog, ok) ==
  Flat([i \in 1..totalBatches |-> IF i \in ok THEN catalog[i] ELSE << >>])

\* ----------------------------------------------------- createAugmentedProducts
\* Math.round(p.price * 2.5 + p.id * 5), the price in cents
BaseInv(p) == Round(p.price * 25 + p.id * 5000, 1000)

\* AvgSales with a fraction of 0.1 + r * 0.3
AvgSalesWide(baseInv, r) == Round(baseInv * (RandDen + 3 * r), 10 * RandDen)

\* Math.round(baseInv * (0.1 + r * 0.2)), r the random value in 1/RandDen
AvgSales(baseInv, r) == Round(baseInv * (RandDen + 2 * r), 10 * RandDen)

\* LeadTime as Math.round(r * 6)
LeadTimeFromZero(r) == Round(6 * r, RandDen)

\* Math.round(1 + r * 5)
LeadTime(r) == Round(RandDen + 5 * r, RandDen)

\* DisplayName cutting at 40 characters and more
DisplayNameCutsAtLimit(title) ==
  IF Len(title) >= MaxNameLen
    THEN SubSeq(title, 1, MaxNameLen) \o <<".", ".", ".">>
    ELSE title

\* p.title.length > 40 ? p.title.substring(0, 40) + "..." : p.title
DisplayName(title) ==
  IF Len(title) > MaxNameLen
    THEN SubSeq(title, 1, MaxNameLen) \o <<".", ".", ".">>
    ELSE title

\* AugmentOne with the first two features in the other order
AugmentOneSwapsFeatures(p, rSales, rLead) ==
  LET baseInv == BaseInv(p)
      avgSales == AvgSales(baseInv, rSales)
      leadTime == LeadTime(rLead)
  IN [id |-> p.id,
      name |-> DisplayName(p.title),
      currentInventory |-> baseInv,
      averageSalesPerWeek |-> avgSales,
      daysToReplenish |-> leadTime,
      reorderPrediction |-> Pending,
      mlFeatures |-> <<avgSales, baseInv, leadTime>>]

AugmentOne(p, rSales, rLead) ==
  LET baseInv == BaseInv(p)
      avgSales == AvgSales(baseInv, rSales)
      leadTime == LeadTime(rLead)
  IN [id |-> p.id,
      name |-> DisplayName(p.title),
      currentInventory |-> baseInv,
      averageSalesPerWeek |-> avgSales,
      daysToReplenish |-> leadTime,
      reorderPrediction |-> Pending,
      mlFeatures |-> <<baseInv, avgSales, leadTime>>]

\* createAugmentedProducts that leaves out the products without a price
createAugmentedProductsSkipsFree(rawProducts, rand) ==
  LET priced == SelectSeq(rawProducts, LAMBDA p : p.price # 0)
  IN [i \in 1..Len(priced) |-> AugmentOne(priced[i], rand[2 * i - 1], rand[2 * i])]

createAugmentedProducts(rawProducts, rand) ==
  [i \in 1..Len(rawProducts) |->
     AugmentOne(rawProducts[i], rand[2 * i - 1], rand[2 * i])]

\* p.title.length throws a TypeError when the record has no title
Throws(rawProducts) ==
  \E i \in 1..Len(rawProducts) : "title" \notin DOMAIN rawProducts[i]

\* ---------------------------------------------------------------- showMessage
Msg(text, type) == [text |-> text, type |-> type]

MsgTraining == Msg("Training model... this will take a few seconds.", "warning")
MsgTrained == Msg("Model trained successfully! Ready to predict.", "success")
MsgTrainError == Msg("Error training model (check console).", "error")
MsgTrainFirst == Msg("Please train the model first!", "warning")
MsgLoadFailed == Msg("Failed to load products from API.", "error")
MsgPredicted(n) == [text |-> "Prediction complete.", type |-> "success", flagged |-> n]

showMessage(m) ==
  /\ timers < MaxTimers
  /\ message' = m
  /\ timers' = timers + 1

\* the setTimeout callback of showMessage: setMessage(null)
ClearMessage ==
  /\ timers > 0
  /\ timers' = timers - 1
  /\ message' = NoMessage
  /\ UNCHANGED <<items, loading, isModelReady, tfModel, totalReorder, runs,
                 predictTensors, lastFit, passesInRow, aside>>

\* ------------------------------------------------------------ the classifier
\* weights a fit may end with: one relu unit, then one sigmoid unit
WeightSet ==
  { [k |-> <<1, 0, 0>>, b1 |-> 0 - 66, v |-> 0 - 1, b2 |-> 0, fitted |-> "yes"],
    [k |-> <<0, 1, 0 - 10>>, b1 |-> 0, v |-> 1, b2 |-> 0 - 2, fitted |-> "yes"],
    [k |-> <<0, 0, 0>>, b1 |-> 0, v |-> 0, b2 |-> 0, fitted |-> "yes"] }

Dot(k, x) == k[1] * x[1] + k[2] * x[2] + k[3] * x[3]

\* the sigmoid, in percent
Sigmoid(z) ==
  IF z <= 0 - 3 THEN 5
  ELSE IF z = 0 - 2 THEN 12
  ELSE IF z = 0 - 1 THEN 27
  ELSE IF z = 0 THEN 50
  ELSE IF z = 1 THEN 73
  ELSE IF z = 2 THEN 88
  ELSE 95

\* model.predict(features) followed by dataSync()[0]
Forward(w, x) == Sigmoid(w.v * Max(0, Dot(w.k, x) + w.b1) + w.b2)

\* Suggestion with a strict comparison
SuggestionStrict(prob) == IF prob > Threshold THEN REORDER ELSE NoReorder

Suggestion(prob) == IF prob >= Threshold THEN REORDER ELSE NoReorder

\* the weights of a model that is not fitted: none yet, the initial ones, or
\* those a failed fit left
Unfitted(what) == [k |-> <<0, 0, 0>>, b1 |-> 0, v |-> 0, b2 |-> 0, fitted |-> what]

IdleRun == [phase |-> "idle", tensors |-> {}, weights |-> Unfitted("none")]

TrainingTensors == {"trainingFeatures", "trainingLabels"}

\* the fetches when they are not followed, and no call of the synthesizer
NoFetches == [catalog |-> << >>, status |-> << >>]
NoCall == [rawProducts |-> << >>, rand |-> << >>, returned |-> FALSE]

TypeOK ==
  /\ loading \in BOOLEAN
  /\ isModelReady \in BOOLEAN
  /\ tfModel \in RunIds \cup {NoModel}
  /\ lastFit \in RunIds \cup {NoModel}
  /\ totalReorder \in Nat
  /\ timers \in 0..MaxTimers
  /\ predictTensors \in 0..MaxLeak
  /\ \A r \in RunIds :
       /\ runs[r].phase \in {"idle", "fitting", "done", "failed"}
       /\ runs[r].tensors \subseteq TrainingTensors

Init ==
  /\ items = << >>
  /\ loading = TRUE
  /\ isModelReady = FALSE
  /\ tfModel = NoModel
  /\ totalReorder = 0
  /\ message = NoMessage
  /\ timers = 0
  /\ runs = [r \in RunIds |-> IdleRun]
  /\ predictTensors = 0
  /\ lastFit = NoModel
  /\ passesInRow = 0
  /\ fetches = NoFetches
  /\ synth = NoCall

\* ---------------------------------------------------------------- loadProducts
\* the try / catch / finally of loadProducts, entered when Promise.all settles
\* with the batches of ok fetched and the others caught into []
AfterAllSettled(catalog, ok, rand) ==
  /\ LET rawProducts == RawProducts(catalog, ok)
     IN IF Throws(rawProducts)
          THEN /\ showMessage(MsgLoadFailed)
               /\ UNCHANGED items
          ELSE /\ items' = createAugmentedProducts(rawProducts, rand)
               /\ UNCHANGED <<message, timers>>
  /\ loading' = FALSE
  /\ passesInRow' = 0
  /\ UNCHANGED <<isModelReady, tfModel, totalReorder, runs, predictTensors, lastFit, aside>>

\* loadProducts from the mount to the end of its continuation, in one step
LoadProducts ==
  /\ loading
  /\ \E catalog \in Catalogs, ok \in SUBSET (1..totalBatches), rand \in RandStreams :
       AfterAllSettled(catalog, ok, rand)

\* ------------------------------------------------------------ handleTrainModel
\* HandleTrainModel that also clears the decisions of the previous model
HandleTrainModelClearsDecisions(r) ==
  /\ runs[r].phase = "idle"
  /\ \A q \in RunIds : q < r => runs[q].phase # "idle"
  /\ isModelReady' = FALSE
  /\ showMessage(MsgTraining)
  /\ runs' = [runs EXCEPT ![r] =
                [phase |-> "fitting", tensors |-> TrainingTensors, weights |-> Unfitted("initial")]]
  /\ items' = [i \in 1..Len(items) |-> [items[i] EXCEPT !.reorderPrediction = Pending]]
  /\ UNCHANGED <<loading, tfModel, totalReorder, predictTensors, lastFit, passesInRow, aside>>

\* handleTrainModel up to its await: setModelReady(false), the message, and
\* buildAndTrainModel up to its await of model.fit
HandleTrainModel(r) ==
  /\ runs[r].phase = "idle"
  /\ \A q \in RunIds : q < r => runs[q].phase # "idle"
  /\ isModelReady' = FALSE
  /\ showMessage(MsgTraining)
  /\ runs' = [runs EXCEPT ![r] =
                [phase |-> "fitting", tensors |-> TrainingTensors, weights |-> Unfitted("initial")]]
  /\ UNCHANGED <<items, loading, tfModel, totalReorder, predictTensors, lastFit,
                 passesInRow, aside>>

\* model.fit resolves: the two dispose() calls, return model, then
\* setTfModel(model), setModelReady(true) and the message
FitResolve(r) ==
  /\ runs[r].phase = "fitting"
  /\ \E w \in WeightSet :
       runs' = [runs EXCEPT ![r] = [phase |-> "done", tensors |-> {}, weights |-> w]]
  /\ tfModel' = r
  /\ isModelReady' = TRUE
  /\ showMessage(MsgTrained)
  /\ lastFit' = r
  /\ passesInRow' = 0
  /\ UNCHANGED <<items, loading, totalReorder, predictTensors, aside>>

\* FitReject with a catch block that also resets the classifier
FitRejectResets(r) ==
  /\ runs[r].phase = "fitting"
  /\ runs' = [runs EXCEPT ![r] = [@ EXCEPT !.phase = "failed", !.weights = Unfitted("partial")]]
  /\ showMessage(MsgTrainError)
  /\ isModelReady' = FALSE
  /\ tfModel' = NoModel
  /\ UNCHANGED <<items, loading, totalReorder, predictTensors, lastFit, passesInRow, aside>>

\* FitReject with the model stored in a finally block instead of after the await
FitRejectStoresModel(r) ==
  /\ runs[r].phase = "fitting"
  /\ runs' = [runs EXCEPT ![r] = [@ EXCEPT !.phase = "failed", !.weights = Unfitted("partial")]]
  /\ showMessage(MsgTrainError)
  /\ tfModel' = r
  /\ UNCHANGED <<items, loading, isModelReady, totalReorder, predictTensors, lastFit,
                 passesInRow, aside>>

\* FitReject with setModelReady(true) in a finally block
FitRejectSetsReady(r) ==
  /\ runs[r].phase = "fitting"
  /\ runs' = [runs EXCEPT ![r] = [@ EXCEPT !.phase = "failed", !.weights = Unfitted("partial")]]
  /\ showMessage(MsgTrainError)
  /\ isModelReady' = TRUE
  /\ UNCHANGED <<items, loading, tfModel, totalReorder, predictTensors, lastFit,
                 passesInRow, aside>>

\* model.fit rejects: buildAndTrainModel rejects at its await, the catch block
\* of handleTrainModel logs and shows the message
FitReject(r) ==
  /\ runs[r].phase = "fitting"
  /\ runs' = [runs EXCEPT ![r] = [@ EXCEPT !.phase = "failed", !.weights = Unfitted("partial")]]
  /\ showMessage(MsgTrainError)
  /\ UNCHANGED <<items, loading, isModelReady, tfModel, totalReorder,
                 predictTensors, lastFit, passesInRow, aside>>

\* --------------------------------------------------------------- handlePredict
\* how a pass over the items ends: at = 0 when no call throws, else the item
\* at which tfModel.predict or res.dataSync throws
PassOutcomes ==
  {[at |-> 0, where |-> "none"]} \cup
  [at : 1..Len(items), where : {"predict", "dataSync"}]

\* tensors of one item still allocated when the callback is left: features and
\* res are disposed after dataSync, so a throw leaves what was created so far
LeftAllocated(where) ==
  CASE where = "none" -> 0
    [] where = "predict" -> 1
    [] where = "dataSync" -> 2

\* PredictOne reading the model of the first run (a handler that kept the
\* tfModel of an earlier render)
PredictOneStale(it) ==
  LET prob == Forward(runs[1].weights, it.mlFeatures)
  IN [it EXCEPT !.reorderPrediction = Suggestion(prob)]

\* the callback of items.map
PredictOne(it) ==
  LET prob == Forward(runs[tfModel].weights, it.mlFeatures)
  IN [it EXCEPT !.reorderPrediction = Suggestion(prob)]

\* CountReorder that starts from the count of the previous pass
CountReorderAccumulates(updated, n) ==
  totalReorder + Cardinality({i \in 1..n : updated[i].reorderPrediction = REORDER})

\* reorderCount after the first n items
RECURSIVE CountReorder(_, _)
CountReorder(updated, n) ==
  IF n = 0 THEN 0
  ELSE CountReorder(updated, n - 1)
       + (IF updated[n].reorderPrediction = REORDER THEN 1 ELSE 0)

\* UntrainedPredict that answers with default decisions instead of a message
UntrainedPredictDefaults ==
  /\ items' = [i \in 1..Len(items) |-> [items[i] EXCEPT !.reorderPrediction = NoReorder]]
  /\ totalReorder' = 0
  /\ UNCHANGED <<message, timers, predictTensors, passesInRow>>

\* the guard of handlePredict taken: the message, and return
UntrainedPredict ==
  /\ showMessage(MsgTrainFirst)
  /\ UNCHANGED <<items, totalReorder, predictTensors, passesInRow>>

\* the pass runs to its end: setItems, setTotalReorder and the message
CompletePass ==
  LET updated == [i \in 1..Len(items) |-> PredictOne(items[i])]
      reorderCount == CountReorder(updated, Len(updated))
  IN /\ items' = updated
     /\ totalReorder' = reorderCount
     /\ showMessage(MsgPredicted(reorderCount))
     /\ passesInRow' = IF passesInRow < 2 THEN passesInRow + 1 ELSE 2
     /\ UNCHANGED predictTensors

\* a call throws inside items.map: the handler is left at once, its promise
\* rejects, nothing is set
AbortPass(where) ==
  /\ predictTensors + LeftAllocated(where) <= MaxLeak
  /\ predictTensors' = predictTensors + LeftAllocated(where)
  /\ UNCHANGED <<items, totalReorder, message, timers, passesInRow>>

\* HandlePredict that asks for a new training after every call
HandlePredictClearsReady ==
  /\ IF tfModel = NoModel
       THEN UntrainedPredict
       ELSE \E outcome \in PassOutcomes :
              IF outcome.at = 0 THEN CompletePass ELSE AbortPass(outcome.where)
  /\ isModelReady' = FALSE
  /\ UNCHANGED <<loading, tfModel, runs, lastFit, aside>>

HandlePredict ==
  /\ IF tfModel = NoModel
       THEN UntrainedPredict
       ELSE \E outcome \in PassOutcomes :
              IF outcome.at = 0 THEN CompletePass ELSE AbortPass(outcome.where)
  /\ UNCHANGED <<loading, isModelReady, tfModel, runs, lastFit, aside>>

\* ------------------------------------------------------------- specifications
\* the handlers as operations any caller may invoke
Next ==
  \/ LoadProducts
  \/ \E r \in RunIds : HandleTrainModel(r)
  \/ \E r \in RunIds : FitResolve(r)
  \/ \E r \in RunIds : FitReject(r)
  \/ HandlePredict
  \/ ClearMessage

Spec == Init /\ [][Next]_vars

\* the Toolbar: rendered once loading is false, Train disabled by isTrained,
\* Run Predictions disabled by !isTrained
TrainDisabled == isModelReady
PredictDisabled == ~isModelReady

ClickTrain ==
  /\ ~loading
  /\ ~TrainDisabled
  /\ \E r \in RunIds : HandleTrainModel(r)

ClickPredict ==
  /\ ~loading
  /\ ~PredictDisabled
  /\ HandlePredict

NextDashboard ==
  \/ LoadProducts
  \/ ClickTrain
  \/ \E r \in RunIds : FitResolve(r)
  \/ \E r \in RunIds : FitReject(r)
  \/ ClickPredict
  \/ ClearMessage

SpecDashboard == Init /\ [][NextDashboard]_vars

\* ------------------------------------------- createAugmentedProducts on its own
Chars == <<"a", "b", "c", "d", "e", "f", "g">>

TitleOf(n) == [i \in 1..n |-> Chars[(i % 7) + 1]]

\* raw items: prices of some, no and negative cents, titles around the limit
SynthProducts ==
  { [id |-> 1, title |-> TitleOf(3), price |-> 10995],
    [id |-> 2, title |-> TitleOf(MaxNameLen + 1), price |-> 2230],
    [id |-> 3, title |-> TitleOf(MaxNameLen), price |-> 0],
    [id |-> 1, title |-> TitleOf(MaxNameLen + 5), price |-> 0 - 5000],
    [id |-> 1, title |-> TitleOf(0), price |-> 0 - 200],
    [id |-> 2, title |-> TitleOf(MaxNameLen - 1), price |-> 0 - 1400] }

SeqsUpTo(S, n) == UNION {[1..k -> S] : k \in 0..n}

\* Math.random() returning the same value every time, for each value, or
\* changing ones, or its least value for the first item and its greatest after
SynthStreams ==
  {[i \in 1..(2 * MaxSynthLen) |-> k] : k \in 0..(RandDen - 1)}
  \cup {[i \in 1..(2 * MaxSynthLen) |-> (3 * i) % RandDen]}
  \cup {[i \in 1..(2 * MaxSynthLen) |-> IF i <= 2 THEN 0 ELSE RandDen - 1]}

InitSynth ==
  /\ items = << >>
  /\ loading = TRUE
  /\ isModelReady = FALSE
  /\ tfModel = NoModel
  /\ totalReorder = 0
  /\ message = NoMessage
  /\ timers = 0
  /\ runs = [r \in RunIds |-> IdleRun]
  /\ predictTensors = 0
  /\ lastFit = NoModel
  /\ passesInRow = 0
  /\ fetches = NoFetches
  /\ synth \in [rawProducts : SeqsUpTo(SynthProducts, MaxSynthLen),
                 rand : SynthStreams,
                 returned : {FALSE}]

\* the call returns; items holds what it returned
Synthesize ==
  /\ ~synth.returned
  /\ items' = createAugmentedProducts(synth.rawProducts, synth.rand)
  /\ synth' = [synth EXCEPT !.returned = TRUE]
  /\ UNCHANGED <<loading, isModelReady, tfModel, totalReorder, message, timers,
                 runs, predictTensors, lastFit, passesInRow, fetches>>

NextSynth == Synthesize

SpecSynth == InitSynth /\ [][NextSynth]_vars

\* -------------------------------------------------------------------- claims
Trained == isModelReady /\ tfModel # NoModel
Untrained == ~isModelReady /\ tfModel = NoModel

Outstanding == {r \in RunIds : runs[r].phase = "fitting"}
Finished == {r \in RunIds : runs[r].phase \in {"done", "failed"}}

Decided(i) == items[i].reorderPrediction # Pending

\* a step of handlePredict in which the pass ran to its end (only then is a
\* message shown)
PassCompletes == tfModel # NoModel /\ HandlePredict /\ timers' = timers + 1

C2_FailedTrainStaysUntrained ==
  [][\A r \in RunIds :
       (Untrained /\ FitReject(r)) =>
          /\ Untrained'
          /\ tfModel' # r
          /\ message' = MsgTrainError]_vars

C2_Witness ==
  /\ Untrained
  /\ message = MsgTrainError
  /\ \E r \in RunIds : runs[r].phase = "failed"

\* C3: handlePredict invoked when no fit has ever resolved shows the
\* train-first message and changes neither the classifier nor the items (all
\* still Pending) nor the flagged count.
C3_UntrainedPredictSignals ==
  [][(lastFit = NoModel /\ HandlePredict) =>
        /\ message' = MsgTrainFirst
        /\ items' = items
        /\ \A i \in 1..Len(items') : items'[i].reorderPrediction = Pending
        /\ totalReorder' = totalReorder
        /\ isModelReady' = isModelReady
        /\ tfModel' = NoModel
        /\ runs' = runs]_vars

C3_Witness ==
  /\ lastFit = NoModel
  /\ message = MsgTrainFirst
  /\ Len(items) > 0

\* C4, as stated: in the dashboard no train run and no prediction pass is
\* started while a train run is outstanding.
C4_TrainingSerialized ==
  [][(ClickTrain \/ ClickPredict) => Outstanding = {}]_vars

\* C5, as stated: a train run that has finished, by a resolving or a rejecting
\* fit, holds no training tensor.
C5_TrainBuffersReleased ==
  \A r \in Finished : runs[r].tensors = {}

\* C6, as stated: between prediction passes no per-item tensor is allocated.
C6_PredictBuffersReleased == predictTensors = 0

\* C7: the synthesizer delivers every item Pending; a decision changes only
\* in a step of handlePredict; a decision that is set never becomes Pending.
C7_DecisionLifecycle ==
  [][items' # items =>
       \/ /\ LoadProducts
          /\ \A i \in 1..Len(items') : items'[i].reorderPrediction = Pending
       \/ /\ HandlePredict
          /\ Len(items') = Len(items)
          /\ \A i \in 1..Len(items) : Decided(i) => items'[i].reorderPrediction # Pending]_vars

\* decisions are set and a train run has resolved since
C7_Witness ==
  /\ \E i \in 1..Len(items) : Decided(i)
  /\ message = MsgTrained

\* C8: a resolving fit makes the classifier Trained with the model of that
\* run, and a pass that runs to its end decides every item from the weights
\* of the run whose fit resolved last.
C8_PredictUsesLatestFit ==
  [][/\ \A r \in RunIds : FitResolve(r) => (isModelReady' /\ tfModel' = r)
     /\ PassCompletes =>
          /\ lastFit # NoModel
          /\ \A i \in 1..Len(items) :
               items'[i].reorderPrediction =
                 Suggestion(Forward(runs[lastFit].weights, items[i].mlFeatures))]_vars

\* a pass ran after the fit of run 1 resolved, which resolved after that of
\* run 2, and an item's decision is not the one the weights of run 2 give
C8_Witness ==
  /\ lastFit = 1
  /\ runs[2].phase = "done"
  /\ message.type = "success" /\ message # MsgTrained
  /\ \E i \in 1..Len(items) :
       /\ Decided(i)
       /\ items[i].reorderPrediction #
            Suggestion(Forward(runs[2].weights, items[i].mlFeatures))

\* C9: a pass that runs to its end stores REORDER for an item exactly when
\* the probability of its features is at least Threshold, else No Reorder.
C9_ThresholdDecision ==
  [][PassCompletes =>
       \A i \in 1..Len(items) :
         LET prob == Forward(runs[tfModel].weights, items[i].mlFeatures)
         IN /\ prob >= Threshold => items'[i].reorderPrediction = REORDER
            /\ prob < Threshold => items'[i].reorderPrediction = NoReorder]_vars

\* a pass stored REORDER at a probability of exactly Threshold and No Reorder
\* for another item
C9_Witness ==
  /\ tfModel # NoModel
  /\ runs[tfModel].phase = "done"
  /\ message.type = "success" /\ message # MsgTrained
  /\ \E i, j \in 1..Len(items) :
       /\ Forward(runs[tfModel].weights, items[i].mlFeatures) = Threshold
       /\ items[i].reorderPrediction = REORDER
       /\ items[j].reorderPrediction = NoReorder

\* C10: in the dashboard totalReorder is the number of items whose decision
\* is REORDER.
C10_CountMatchesItems ==
  totalReorder = Cardinality({i \in 1..Len(items) : items[i].reorderPrediction = REORDER})

\* a pass flagged some items and not others
C10_Witness ==
  /\ totalReorder > 0
  /\ totalReorder < Len(items)
  /\ \A i \in 1..Len(items) : Decided(i)

\* C11: createAugmentedProducts returns as many records as it was given raw
\* items, the record at each position with the id of the raw item there; the
\* empty sequence gives the empty sequence.
C11_SameLengthSameIds ==
  synth.returned =>
    /\ Len(items) = Len(synth.rawProducts)
    /\ \A i \in 1..Len(synth.rawProducts) : items[i].id = synth.rawProducts[i].id
    /\ (synth.rawProducts = << >> => items = << >>)

\* two raw items with different ids, one of them without a price, came back
C11_Witness ==
  /\ synth.returned
  /\ Len(items) = 2
  /\ items[1].id # items[2].id
  /\ \E i \in 1..2 : synth.rawProducts[i].price = 0

\* C12: every item's mlFeatures is <<currentInventory, averageSalesPerWeek,
\* daysToReplenish>> of that item, in that order, as loaded and after every
\* prediction pass.
C12_FeaturesMatchFields ==
  \A i \in 1..Len(items) :
    items[i].mlFeatures =
      <<items[i].currentInventory, items[i].averageSalesPerWeek, items[i].daysToReplenish>>

\* a prediction pass has decided an item whose three features differ
C12_Witness ==
  \E i \in 1..Len(items) :
    /\ Decided(i)
    /\ items[i].currentInventory # items[i].averageSalesPerWeek
    /\ items[i].averageSalesPerWeek # items[i].daysToReplenish

\* C13: daysToReplenish of every synthesized record is an integer from 1 to 6,
\* whatever the random value.
C13_LeadTimeInRange ==
  synth.returned =>
    \A i \in 1..Len(items) : items[i].daysToReplenish \in 1..6

\* the random values 0 and (RandDen - 1)/RandDen gave 1 and 6 days
C13_Witness ==
  /\ synth.returned
  /\ Len(items) = 2
  /\ items[1].daysToReplenish = 1
  /\ items[2].daysToReplenish = 6

\* C14, as stated: averageSalesPerWeek lies between round(currentInventory *
\* 0.10) and round(currentInventory * 0.30), for every currentInventory.
C14_SalesWithinBounds ==
  synth.returned =>
    \A i \in 1..Len(items) :
      /\ Round(items[i].currentInventory, 10) <= items[i].averageSalesPerWeek
      /\ items[i].averageSalesPerWeek <= Round(3 * items[i].currentInventory, 10)

\* C14, amended: the two bounds hold when currentInventory is not negative;
\* when it is negative they hold with their roles exchanged.
C14_SalesWithinOrderedBounds ==
  synth.returned =>
    \A i \in 1..Len(items) :
      LET inv == items[i].currentInventory
          sales == items[i].averageSalesPerWeek
      IN /\ inv >= 0 => (Round(inv, 10) <= sales /\ sales <= Round(3 * inv, 10))
         /\ inv < 0 => (Round(3 * inv, 10) <= sales /\ sales <= Round(inv, 10))

\* records of positive, zero and negative inventory, the negative one with
\* sales below round(currentInventory * 0.10)
C14_Witness ==
  /\ synth.returned
  /\ \E i, j \in 1..Len(items) :
       /\ items[i].currentInventory < 0
       /\ items[i].averageSalesPerWeek < Round(items[i].currentInventory, 10)
       /\ items[j].currentInventory > 0
       /\ items[j].averageSalesPerWeek > Round(items[j].currentInventory, 10)

\* C15: the name is the title when the title has at most MaxNameLen
\* characters, else its first MaxNameLen characters and three dots; the
\* features are those of the same raw item without its title.
C15_NameTruncation ==
  synth.returned =>
    \A i \in 1..Len(items) :
      LET p == synth.rawProducts[i]
          name == items[i].name
      IN /\ Len(p.title) <= MaxNameLen => name = p.title
         /\ Len(p.title) > MaxNameLen =>
              /\ Len(name) = MaxNameLen + 3
              /\ \A j \in 1..MaxNameLen : name[j] = p.title[j]
              /\ \A j \in (MaxNameLen + 1)..(MaxNameLen + 3) : name[j] = "."
         /\ LET inv == BaseInv([id |-> p.id, price |-> p.price])
            IN items[i].mlFeatures =
                 <<inv, AvgSales(inv, synth.rand[2 * i - 1]), LeadTime(synth.rand[2 * i])>>

\* a title of 45 characters came back with 43, one of 40 unchanged
C15_Witness ==
  /\ synth.returned
  /\ \E i, j \in 1..Len(items) :
       /\ Len(synth.rawProducts[i].title) = 45
       /\ Len(items[i].name) = 43
       /\ Len(synth.rawProducts[j].title) = 40
       /\ items[j].name = synth.rawProducts[j].title

\* ------------------------------------------- loadProducts, fetch by fetch
\* a catalog with products on the first, third and fifth page
Spread == << <<Bag>>, << >>, <<Shirt>>, << >>, <<Ring>> >>

LoadCatalogs == Catalogs \cup {Spread}

Batches == 1..totalBatches

\* the batches whose fetch has the given status
With(status) == {i \in Batches : fetches.status[i] = status}

\* the effect is mounted: the five fetches are under way
InitLoad ==
  /\ items = << >>
  /\ loading = TRUE
  /\ isModelReady = FALSE
  /\ tfModel = NoModel
  /\ totalReorder = 0
  /\ message = NoMessage
  /\ timers = 0
  /\ runs = [r \in RunIds |-> IdleRun]
  /\ predictTensors = 0
  /\ lastFit = NoModel
  /\ passesInRow = 0
  /\ synth = NoCall
  /\ fetches \in [catalog : LoadCatalogs, status : [Batches -> {"pending"}]]

\* the fetch of batch i settles: its page is parsed, or the .catch turns a
\* network error or a bad HTTP status into []
FetchSettle(i, outcome) ==
  /\ fetches.status[i] = "pending"
  /\ fetches' = [fetches EXCEPT !.status[i] = outcome]
  /\ UNCHANGED <<items, loading, isModelReady, tfModel, totalReorder, message, timers,
                 runs, predictTensors, lastFit, passesInRow, synth>>

\* Promise.all resolves once the five promises are settled, and loadProducts
\* goes on after its await
LoadSettled ==
  /\ loading
  /\ With("pending") = {}
  /\ \E rand \in RandStreams : AfterAllSettled(fetches.catalog, With("ok"), rand)

NextLoad ==
  \/ \E i \in Batches, outcome \in {"ok", "failed"} : FetchSettle(i, outcome)
  \/ LoadSettled

\* the continuation of an await runs as a microtask once its promise is
\* settled; nothing makes a fetch settle
SpecLoad == InitLoad /\ [][NextLoad]_vars /\ WF_vars(LoadSettled)

\* the weights of the stored model
StoredWeights == IF tfModel = NoModel THEN Unfitted("none") ELSE runs[tfModel].weights

\* C16: a step of handlePredict, however it ends, leaves the stored model, its
\* weights and isModelReady as they were; they change only in a step of a
\* train run (its start or its fit resolving).
C16_PredictLeavesClassifier ==
  [][/\ HandlePredict =>
          /\ tfModel' = tfModel
          /\ isModelReady' = isModelReady
          /\ runs' = runs
     /\ <<tfModel, isModelReady, StoredWeights>>' # <<tfModel, isModelReady, StoredWeights>> =>
          \E r \in RunIds : HandleTrainModel(r) \/ FitResolve(r)]_vars

\* passes have run to their end and one has been aborted, and the classifier
\* is still Trained
C16_Witness ==
  /\ Trained
  /\ passesInRow > 0
  /\ predictTensors > 0

\* C17: a pass that runs to its end after another one, with no fit resolved
\* and no load in between, stores the decisions and the count that are there.
C17_RepeatedPassAgrees ==
  [][(PassCompletes /\ passesInRow >= 1) =>
        /\ items' = items
        /\ totalReorder' = totalReorder]_vars

\* two passes in a row, some items flagged and some not
C17_Witness ==
  /\ passesInRow = 2
  /\ totalReorder > 0
  /\ totalReorder < Len(items)

\* C18: in the dashboard isModelReady implies that a model is stored, and the
\* train-first message of handlePredict is never shown.
C18_ReadyImpliesModel ==
  /\ isModelReady => tfModel # NoModel
  /\ message # MsgTrainFirst

\* the classifier is ready while another train run is still outstanding and
\* one has failed
C18_Witness ==
  /\ isModelReady
  /\ \/ Outstanding # {}
     \/ \E r \in RunIds : runs[r].phase = "failed"
  /\ passesInRow > 0

\* C19, as stated: a clear timer that removes a message is the timer of that
\* message. All timers wait 4000 ms, so they run in the order they were set:
\* the one that runs is the oldest pending, and the message on display is
\* that of the newest, so the two belong together only when one is pending.
C19_MessageKeptUntilOwnTimer ==
  [][(ClearMessage /\ message # NoMessage) => timers = 1]_vars

\* the number of products of the fetched batches before batch i
RECURSIVE FetchedBefore(_)
FetchedBefore(i) ==
  IF i = 1 THEN 0
  ELSE FetchedBefore(i - 1)
         + (IF fetches.status[i - 1] = "ok" THEN Len(fetches.catalog[i - 1]) ELSE 0)

\* every product of a fetched batch is a RawCatalogItem
WellFormed ==
  \A i \in With("ok") : \A k \in 1..Len(fetches.catalog[i]) :
     "title" \in DOMAIN fetches.catalog[i][k]

\* C20: whatever fetches succeed and fail, the load stores exactly the
\* products of the fetched batches, batch after batch and in page order (the
\* failed batches give none), and once every fetch has settled the loading
\* flag becomes false.
C20_LoadKeepsFetchedBatches ==
  /\ [][(LoadSettled /\ WellFormed) =>
          /\ Len(items') = FetchedBefore(totalBatches + 1)
          /\ \A i \in With("ok") : \A k \in 1..Len(fetches.catalog[i]) :
               LET p == fetches.catalog[i][k]
                   it == items'[FetchedBefore(i) + k]
               IN /\ it.id = p.id
                  /\ it.name = DisplayName(p.title)
                  /\ it.reorderPrediction = Pending]_vars
  /\ (With("pending") = {}) ~> ~loading

\* the load has ended with a failed batch between two fetched ones
C20_Witness ==
  /\ ~loading
  /\ fetches.catalog = Spread
  /\ fetches.status[1] = "ok"
  /\ fetches.status[3] = "failed"
  /\ fetches.status[5] = "ok"
  /\ Len(items) = 2
  /\ items[2].id = Ring.id

====
